---- MODULE Spec2Model ----
(***************************************************************************)
(* State-machine model of the uniqore listing pages (Events and Articles): *)
(* the three collection fetches, the tag join, the React state of the      *)
(* listing component, its effects and its handlers.  The Events page       *)
(* (src/app/events/page.tsx) and the Articles page (src/unnamed/part_002)  *)
(* have the same fetch/join/filter/sort/paginate code; names follow the    *)
(* Events page.  The detail pages (src/app/events/[...slug]/page.tsx and   *)
(* src/unnamed/part_001), the calendar link generator and the CMS client   *)
(* (src/unnamed/part_000) have specifications of their own further down.   *)
(***************************************************************************)
EXTENDS Integers, Sequences, FiniteSets, TLC

VARIABLES
    fetchState,      \* status of fetchEvents/fetchEventsTags/fetchTags
    responses,       \* responses Promise.all holds until all three are in
    loadPc,          \* position of loadEvents: "idle", "awaiting", "done"
    blogPosts,       \* useState: base collection
    selectedTags,    \* useState: array of selected tag labels
    sortOrder,       \* useState: "newest" | "oldest"
    filteredPosts,   \* useState
    currentPage,     \* useState
    totalPages,      \* useState
    displayedPosts,  \* useState
    filterDirty,     \* deps [blogPosts, selectedTags, sortOrder] changed since the filter effect last ran
    pageDirty,       \* deps [currentPage, filteredPosts] changed since the pagination effect last ran
    scrollToTop,     \* the latest handler called window.scrollTo
    lastOp,          \* history: the latest handler or promise continuation that ran
    requests,        \* history: the options of every request handed to fetch by the CMS client
    slugValue,       \* detail page: the slug of the route parameters
    postData,        \* detail page useState: <<>> for undefined, <<p>> for post p
    loading,         \* detail page useState
    error,           \* detail page useState: NoError or the message
    inflight,        \* detail page: the fetchData() invocations not yet finished
    slugChanges,     \* detail page: number of changes of the route parameters so far
    finished,        \* detail page history: the fetchData() invocations that ran to their end, in order
    calPost,         \* calendar link: the post the generator is called for and the UTC offset of local time
    calResult        \* calendar link: what the call gave

listingVars == <<fetchState, responses, loadPc, blogPosts, selectedTags, sortOrder,
                 filteredPosts, currentPage, totalPages, displayedPosts,
                 filterDirty, pageDirty, scrollToTop>>

detailVars == <<slugValue, postData, loading, error, inflight, slugChanges, finished>>

calVars == <<calPost, calResult>>

vars == <<listingVars, lastOp, requests, detailVars, calVars>>

-----------------------------------------------------------------------------
(* Bounds of the inputs.                                                   *)

\* largest primary collection the CMS returns
MaxItems == 25
\* longest tag dictionary
MaxTags == 2
\* largest primary collection and longest join-row collection given to the
\* tag join when it is checked on its own
MaxJoinItems == 2
MaxJoinRows == 2
\* most changes of the slug one mounted detail page sees
MaxSlugChanges == 1

\* const POSTS_PER_PAGE = 12
POSTS_PER_PAGE == 12

-----------------------------------------------------------------------------
(* Sequence helpers standing for the JavaScript array methods used.        *)

Range(s) == {s[i] : i \in 1..Len(s)}

SeqsUpTo(S, n) == UNION {[1..k -> S] : k \in 0..n}

\* Array.prototype.includes
Includes(s, x) == \E i \in 1..Len(s) : s[i] = x

\* Array.prototype.slice(start, end): 0-based start, exclusive end; a negative
\* index counts from the end; both are clamped to the array.
Slice(s, start, end) ==
    LET Rel(k) == IF k < 0
                  THEN (IF Len(s) + k < 0 THEN 0 ELSE Len(s) + k)
                  ELSE (IF k > Len(s) THEN Len(s) ELSE k)
        lo == Rel(start)
        hi == Rel(end)
    IN  IF hi <= lo THEN <<>> ELSE [i \in 1..(hi - lo) |-> s[lo + i]]

\* Math.ceil(a / b) for integers a >= 0, b > 0
MathCeilDiv(a, b) == (a + b - 1) \div b

-----------------------------------------------------------------------------
(* What the CMS can answer.  A primary item carries its id and its         *)
(* date_created (an ISO date, kept as <<year, month, day>>); the other     *)
(* fields (slug, title, image, ...) are copied through unchanged by the    *)
(* join and by loadEvents and are left out.                                *)

\* The date_created values the CMS holds, in ascending order.
DateTable ==
    << <<2023, 1, 15>>, <<2023, 2, 28>>, <<2023, 3, 1>>, <<2023, 7, 4>>,
       <<2023, 12, 31>>, <<2024, 1, 1>>, <<2024, 2, 29>>, <<2024, 3, 1>>,
       <<2024, 4, 30>>, <<2024, 5, 31>>, <<2024, 6, 1>> >>

\* The date of the item with id i.  Items 1, 2, 3 carry 2024-01-01,
\* 2024-06-01, 2023-12-31; the first Len(DateTable) items have pairwise
\* distinct dates in shuffled order, later items repeat them (ties).
DateOf(i) == DateTable[((i * 5) % Len(DateTable)) + 1]

MkEvents(n) == [i \in 1..n |-> [id |-> i, date_created |-> DateOf(i)]]

EventsResponses == {MkEvents(n) : n \in 0..MaxItems}

Labels == {"a", "b", ""}
TagIds == {1, 2}

\* The join rows of item i: none, tag 1, tags 2 then 1, or tag 2.
JoinRowsOf(i) ==
    CASE i % 4 = 1 -> <<[events_id |-> i, tags_id |-> 1]>>
      [] i % 4 = 2 -> <<[events_id |-> i, tags_id |-> 2], [events_id |-> i, tags_id |-> 1]>>
      [] i % 4 = 3 -> <<[events_id |-> i, tags_id |-> 2]>>
      [] OTHER     -> <<>>

\* The join rows of items n, n-1, ..., 1, in that order.
RECURSIVE BulkJoins(_)
BulkJoins(n) == IF n = 0 THEN <<>> ELSE JoinRowsOf(n) \o BulkJoins(n - 1)

\* The join table is empty or holds the rows of every possible item.  A row
\* may name a tag id the dictionary lacks: the dictionary need not hold every
\* id of TagIds.
JoinResponses == {<<>>, BulkJoins(MaxItems)}

TagResponses == SeqsUpTo([id : TagIds, tag : Labels], MaxTags)

-----------------------------------------------------------------------------
(* fetchEventsWithTags / fetchArticlesWithTags: the tag join.              *)

\* tags.reduce((acc, tag) => { acc[tag.id] = tag.tag; return acc }, {})
RECURSIVE TagMapReduce(_, _, _)
TagMapReduce(tags, i, acc) ==
    IF i > Len(tags)
    THEN acc
    ELSE TagMapReduce(tags, i + 1,
            [k \in (DOMAIN acc) \cup {tags[i].id} |->
                IF k = tags[i].id THEN tags[i].tag ELSE acc[k]])

TagMap(tags) == TagMapReduce(tags, 1, [k \in {} |-> ""])

\* Variant with a placeholder label for what the dictionary does not resolve.
TagLabelPlaceholder(tagMap, tagsId) ==
    IF tagsId \in DOMAIN tagMap /\ tagMap[tagsId] # "" THEN tagMap[tagsId] ELSE "untagged"

\* tagMap[eventsTag.tags_id] || ''
TagLabel(tagMap, tagsId) ==
    IF tagsId \in DOMAIN tagMap /\ tagMap[tagsId] # "" THEN tagMap[tagsId] ELSE ""

\* Variant without the filter: every join row contributes to every item.
RelatedTagsOfAllRows(item, eventsTags, tagMap) ==
    [i \in 1..Len(eventsTags) |-> TagLabel(tagMap, eventsTags[i].tags_id)]

\* eventsTags.filter(eventsTag => eventsTag.events_id === item.id)
\*           .map(eventsTag => tagMap[eventsTag.tags_id] || '')
RelatedTags(item, eventsTags, tagMap) ==
    LET rows == SelectSeq(eventsTags, LAMBDA r : r.events_id = item.id)
    IN  [i \in 1..Len(rows) |-> TagLabel(tagMap, rows[i].tags_id)]

\* relatedTags.filter(Boolean)
FilterBoolean(relatedTags) == SelectSeq(relatedTags, LAMBDA t : t # "")

\* Variant that keeps only the items that have a tag (an inner join).
EventsWithTagsInner(events, eventsTags, tags) ==
    LET tagMap == TagMap(tags)
        all == [i \in 1..Len(events) |->
                  [id |-> events[i].id,
                   date_created |-> events[i].date_created,
                   tags |-> FilterBoolean(RelatedTags(events[i], eventsTags, tagMap))]]
    IN  SelectSeq(all, LAMBDA item : Len(item.tags) > 0)

\* events.map(item => ({ ...item, tags: relatedTags.filter(Boolean) }))
EventsWithTags(events, eventsTags, tags) ==
    LET tagMap == TagMap(tags)
    IN  [i \in 1..Len(events) |->
            [id |-> events[i].id,
             date_created |-> events[i].date_created,
             tags |-> FilterBoolean(RelatedTags(events[i], eventsTags, tagMap))]]

-----------------------------------------------------------------------------
(* The listing component: derived values and the bodies of its effects     *)
(* and handlers.                                                           *)

\* new Date(date_created).getTime(), counted in days since 1970-01-01
\* (the millisecond value divided by 86400000) to stay within 32 bits.
DateGetTime(date) ==
    LET y   == IF date[2] <= 2 THEN date[1] - 1 ELSE date[1]
        era == y \div 400
        yoe == y - era * 400
        mp  == IF date[2] > 2 THEN date[2] - 3 ELSE date[2] + 9
        doy == (153 * mp + 2) \div 5 + date[3] - 1
        doe == yoe * 365 + yoe \div 4 - yoe \div 100 + doy
    IN  era * 146097 + doe - 719468

\* Variant with the two orders exchanged.
CompareByDateSwapped(a, b, order) ==
    LET dateA == DateGetTime(a.date_created)
        dateB == DateGetTime(b.date_created)
    IN  IF order = "newest" THEN dateA - dateB ELSE dateB - dateA

\* The comparator of result.sort:
\*   sortOrder === 'newest' ? dateB - dateA : dateA - dateB
CompareByDate(a, b, order) ==
    LET dateA == DateGetTime(a.date_created)
        dateB == DateGetTime(b.date_created)
    IN  IF order = "newest" THEN dateB - dateA ELSE dateA - dateB

\* Array.prototype.sort is stable: an element goes behind every element
\* already placed that does not compare greater than it.
RECURSIVE ArraySort(_, _, _, _)
ArraySort(s, i, acc, order) ==
    IF i > Len(s)
    THEN acc
    ELSE LET x   == s[i]
             pos == Cardinality({j \in 1..Len(acc) :
                                    CompareByDate(acc[j], x, order) <= 0})
         IN  ArraySort(s, i + 1,
                       SubSeq(acc, 1, pos) \o <<x>> \o SubSeq(acc, pos + 1, Len(acc)),
                       order)

\* Variant with AND semantics: every selected tag must be on the post.
MatchesEverySelected(post, selected) ==
    \A i \in 1..Len(selected) : Includes(post.tags, selected[i])

\* selectedTags.some(tag => post.tags.includes(tag))
MatchesSelected(post, selected) ==
    \E i \in 1..Len(selected) : Includes(post.tags, selected[i])

\* if (selectedTags.length > 0) result = result.filter(...)
FilterByTags(posts, selected) ==
    IF Len(selected) > 0
    THEN SelectSeq(posts, LAMBDA post : MatchesSelected(post, selected))
    ELSE posts

\* result of the filter/sort effect
FilterAndSort(posts, selected, order) ==
    ArraySort(FilterByTags(posts, selected), 1, <<>>, order)

\* Math.ceil(result.length / POSTS_PER_PAGE)
TotalPagesOf(result) == MathCeilDiv(Len(result), POSTS_PER_PAGE)

\* Variant whose window starts one position late.
PageWindowLateStart(filtered, page) ==
    LET startIndex == (page - 1) * POSTS_PER_PAGE + 1
        endIndex   == startIndex + POSTS_PER_PAGE
    IN  Slice(filtered, startIndex, endIndex)

\* filteredPosts.slice(startIndex, endIndex)
PageWindow(filtered, page) ==
    LET startIndex == (page - 1) * POSTS_PER_PAGE
        endIndex   == startIndex + POSTS_PER_PAGE
    IN  Slice(filtered, startIndex, endIndex)

\* UTF-16 code unit of a one-letter label, the key of Array.prototype.sort()
CodeUnit(label) == IF label = "a" THEN 97 ELSE 98

\* blogPosts.flatMap(post => post.tags)
RECURSIVE FlatMapTags(_, _)
FlatMapTags(posts, i) ==
    IF i > Len(posts) THEN <<>> ELSE posts[i].tags \o FlatMapTags(posts, i + 1)

\* Array.from(new Set(labels)): the first occurrence of each label, in the
\* order of insertion.
RECURSIVE ArrayFromSet(_, _, _)
ArrayFromSet(labels, i, acc) ==
    IF i > Len(labels)
    THEN acc
    ELSE ArrayFromSet(labels, i + 1,
                      IF Includes(acc, labels[i]) THEN acc ELSE Append(acc, labels[i]))

\* Array.prototype.sort() without comparator: ascending by code units.
RECURSIVE DefaultSort(_, _, _)
DefaultSort(s, i, acc) ==
    IF i > Len(s)
    THEN acc
    ELSE LET pos == Cardinality({j \in 1..Len(acc) : CodeUnit(acc[j]) <= CodeUnit(s[i])})
         IN  DefaultSort(s, i + 1,
                         SubSeq(acc, 1, pos) \o <<s[i]>> \o SubSeq(acc, pos + 1, Len(acc)))

\* Variant without the sort: the labels in the order of first occurrence.
AllTagsUnsorted(posts) == ArrayFromSet(FlatMapTags(posts, 1), 1, <<>>)

\* Array.from(new Set(blogPosts.flatMap(post => post.tags))).sort()
AllTags(posts) == DefaultSort(ArrayFromSet(FlatMapTags(posts, 1), 1, <<>>), 1, <<>>)

\* Variant that never removes a tag.
ToggleTagResultAppendOnly(selected, tag) == Append(selected, tag)

\* toggleTag: remove the tag when included, else append it
ToggleTagResult(selected, tag) ==
    IF Includes(selected, tag)
    THEN SelectSeq(selected, LAMBDA t : t # tag)
    ELSE Append(selected, tag)

\* Variant without the lower bound.
PageInRangeNoLowerBound(page, total) == page <= total

\* goToPage: if (page >= 1 && page <= totalPages)
PageInRange(page, total) == page >= 1 /\ page <= total

-----------------------------------------------------------------------------
(* The state machine.                                                      *)

Fetches == {"events", "eventsTags", "tags"}

NoResponses == [w \in Fetches |-> <<>>]

\* The collection each fetch function reads.
Collection == [events |-> "events", eventsTags |-> "events_tags", tags |-> "tags"]

\* The listing fetches carry no slug filter.
NoSlug == "none"

\* readItems(collection, query) as the rest transport hands it to the
\* onRequest hook: the request options; no caller sets a cache mode.
ReadItems(collection, slug) == [path |-> collection, slug |-> slug, cache |-> "absent"]

\* Variant of the hook that passes the options on as they are.
OnRequestPassThrough(options) == options

\* onRequest: options => ({ ...options, cache: 'no-store' })
OnRequest(options) == [options EXCEPT !.cache = "no-store"]

\* directus.request(...): the rest transport applies onRequest and hands the
\* resulting options to fetch.
DirectusRequest(options) == OnRequest(options)

\* No detail page is mounted.
NoError == "null"

DetailUnmounted ==
    /\ slugValue = NoSlug
    /\ postData = <<>>
    /\ loading = TRUE
    /\ error = NoError
    /\ inflight = <<>>
    /\ slugChanges = 0
    /\ finished = <<>>

\* No calendar link has been asked for.
CalendarIdle ==
    /\ calPost = <<>>
    /\ calResult = <<>>

\* The useState initial values; nothing fetched, no effect run yet.
ListingInit ==
    /\ fetchState = [w \in Fetches |-> "idle"]
    /\ responses = NoResponses
    /\ loadPc = "idle"
    /\ blogPosts = <<>>
    /\ selectedTags = <<>>
    /\ sortOrder = "newest"
    /\ filteredPosts = <<>>
    /\ currentPage = 1
    /\ totalPages = 1
    /\ displayedPosts = <<>>
    /\ filterDirty = TRUE
    /\ pageDirty = TRUE
    /\ scrollToTop = FALSE
    /\ lastOp = "none"

Init ==
    /\ ListingInit
    /\ requests = {}
    /\ DetailUnmounted
    /\ CalendarIdle

\* Every effect whose dependencies changed has run.
Settled == ~filterDirty /\ ~pageDirty

\* The load effect (deps []): loadEvents() issues the three fetches together.
LoadEffect ==
    /\ loadPc' = "awaiting"
    /\ fetchState' = [w \in Fetches |-> "pending"]
    /\ requests' = requests \cup {DirectusRequest(ReadItems(Collection[w], NoSlug)) : w \in Fetches}

\* Variant of the filter/sort effect that keeps the page when it still exists.
FilterEffectKeepPage ==
    LET result == FilterAndSort(blogPosts, selectedTags, sortOrder)
    IN  /\ filteredPosts' = result
        /\ totalPages' = TotalPagesOf(result)
        /\ currentPage' = IF currentPage <= TotalPagesOf(result) THEN currentPage ELSE 1

\* The filter/sort effect (deps [blogPosts, selectedTags, sortOrder]).
FilterEffect ==
    LET result == FilterAndSort(blogPosts, selectedTags, sortOrder)
    IN  /\ filteredPosts' = result
        /\ totalPages' = TotalPagesOf(result)
        /\ currentPage' = 1

\* The pagination effect (deps [currentPage, filteredPosts]).
PaginationEffect ==
    displayedPosts' = PageWindow(filteredPosts, currentPage)

\* One flush of the effects after a render.  Each effect whose dependencies
\* changed runs on the rendered state; the state updates are applied together.
\* The load effect runs in the first flush only.  setFilteredPosts stores a new
\* array, so the pagination effect is due again after the filter effect.
RunEffects ==
    /\ filterDirty \/ pageDirty
    /\ IF loadPc = "idle" THEN LoadEffect ELSE UNCHANGED <<loadPc, fetchState, requests>>
    /\ IF filterDirty
       THEN FilterEffect
       ELSE UNCHANGED <<filteredPosts, totalPages, currentPage>>
    /\ IF pageDirty THEN PaginationEffect ELSE UNCHANGED displayedPosts
    /\ filterDirty' = FALSE
    /\ pageDirty' = filterDirty
    /\ UNCHANGED <<detailVars, calVars>>
    /\ UNCHANGED <<responses, blogPosts, selectedTags, sortOrder, scrollToTop, lastOp>>

\* Variant of the catch block that joins whatever has arrived.
CatchResultPartial(got) == EventsWithTags(got.events, got.eventsTags, got.tags)

\* catch (err) { console.error(...); return [] }
CatchResult(got) == <<>>

\* data.map(item => ({ id: item.id, ..., tags: item.tags }))
MapFields(data) ==
    [i \in 1..Len(data) |->
        [id |-> data[i].id,
         date_created |-> data[i].date_created,
         tags |-> data[i].tags]]

\* loadEvents after the await: setBlogPost(data.map(...)).
SetBlogPost(data) ==
    /\ blogPosts' = MapFields(data)
    /\ filterDirty' = TRUE
    /\ loadPc' = "done"
    /\ lastOp' = "load"
    /\ responses' = NoResponses

\* Variant that goes on as soon as the primary collection is in.
PromiseAllFulfilledEventsOnly(state) == state["events"] = "ok"

\* await Promise.all([...]) goes on once each of the three promises is fulfilled.
PromiseAllFulfilled(state) == \A w \in Fetches : state[w] = "ok"

\* One fetch is answered while Promise.all is pending.  When it is the last of
\* the three, Promise.all resolves and fetchEventsWithTags and loadEvents run
\* on in the same task.
FetchFulfilled(which, resp) ==
    /\ loadPc = "awaiting"
    /\ fetchState[which] = "pending"
    /\ fetchState' = [fetchState EXCEPT ![which] = "ok"]
    /\ LET got == [responses EXCEPT ![which] = resp]
       IN  IF PromiseAllFulfilled(fetchState')
           THEN SetBlogPost(EventsWithTags(got.events, got.eventsTags, got.tags))
           ELSE /\ responses' = got
                /\ UNCHANGED <<blogPosts, filterDirty, loadPc, lastOp>>
    /\ UNCHANGED <<requests, detailVars, calVars>>
    /\ UNCHANGED <<selectedTags, sortOrder, filteredPosts, currentPage, totalPages,
                   displayedPosts, pageDirty, scrollToTop>>

FetchEventsFulfilled == \E resp \in EventsResponses : FetchFulfilled("events", resp)

FetchEventsTagsFulfilled == \E resp \in JoinResponses : FetchFulfilled("eventsTags", resp)

FetchTagsFulfilled == \E resp \in TagResponses : FetchFulfilled("tags", resp)

\* One fetch fails while Promise.all is pending: Promise.all rejects at once,
\* the catch block of fetchEventsWithTags logs and returns [], and loadEvents
\* stores it.
FetchRejected ==
    \E which \in Fetches :
        /\ loadPc = "awaiting"
        /\ fetchState[which] = "pending"
        /\ fetchState' = [fetchState EXCEPT ![which] = "failed"]
        /\ SetBlogPost(CatchResult(responses))
        /\ UNCHANGED <<requests, detailVars, calVars>>
        /\ UNCHANGED <<selectedTags, sortOrder, filteredPosts, currentPage, totalPages,
                       displayedPosts, pageDirty, scrollToTop>>

\* A fetch still in flight after Promise.all was rejected ends either way;
\* nobody reads its outcome.
FetchEndsUnread ==
    \E which \in Fetches, outcome \in {"ok", "failed"} :
        /\ loadPc = "done"
        /\ fetchState[which] = "pending"
        /\ fetchState' = [fetchState EXCEPT ![which] = outcome]
        /\ UNCHANGED <<requests, detailVars, calVars>>
        /\ UNCHANGED <<responses, loadPc, blogPosts, selectedTags, sortOrder,
                       filteredPosts, currentPage, totalPages, displayedPosts,
                       filterDirty, pageDirty, scrollToTop, lastOp>>

\* Variant that offers every label, whether an item carries it or not.
OfferedTagsAnyLabel == Labels \ {""}

\* The tags the page offers: the checkboxes of allTags and the chips of selectedTags.
OfferedTags == Range(AllTags(blogPosts)) \cup Range(selectedTags)

ToggleTag(tag) ==
    /\ Settled
    /\ selectedTags' = ToggleTagResult(selectedTags, tag)
    /\ filterDirty' = TRUE
    /\ scrollToTop' = FALSE
    /\ lastOp' = "toggleTag"
    /\ UNCHANGED <<requests, detailVars, calVars>>
    /\ UNCHANGED <<fetchState, responses, loadPc, blogPosts, sortOrder, filteredPosts,
                   currentPage, totalPages, displayedPosts, pageDirty>>

ToggleTagClick == \E tag \in OfferedTags : ToggleTag(tag)

\* setSelectedTags([]) stores a new array, so the filter effect is due.
ClearTags ==
    /\ Settled
    /\ selectedTags' = <<>>
    /\ filterDirty' = TRUE
    /\ scrollToTop' = FALSE
    /\ lastOp' = "clearTags"
    /\ UNCHANGED <<requests, detailVars, calVars>>
    /\ UNCHANGED <<fetchState, responses, loadPc, blogPosts, sortOrder, filteredPosts,
                   currentPage, totalPages, displayedPosts, pageDirty>>

ToggleSortOrder ==
    /\ Settled
    /\ sortOrder' = IF sortOrder = "newest" THEN "oldest" ELSE "newest"
    /\ filterDirty' = TRUE
    /\ scrollToTop' = FALSE
    /\ lastOp' = "toggleSortOrder"
    /\ UNCHANGED <<requests, detailVars, calVars>>
    /\ UNCHANGED <<fetchState, responses, loadPc, blogPosts, selectedTags, filteredPosts,
                   currentPage, totalPages, displayedPosts, pageDirty>>

\* setCurrentPage with the value already held schedules no effect.
GoToPage(page) ==
    /\ Settled
    /\ IF PageInRange(page, totalPages)
       THEN /\ currentPage' = page
            /\ pageDirty' = (page # currentPage)
            /\ scrollToTop' = TRUE
       ELSE /\ UNCHANGED <<currentPage, pageDirty>>
            /\ scrollToTop' = FALSE
    /\ lastOp' = "goToPage"
    /\ UNCHANGED <<requests, detailVars, calVars>>
    /\ UNCHANGED <<fetchState, responses, loadPc, blogPosts, selectedTags, sortOrder,
                   filteredPosts, totalPages, displayedPosts, filterDirty>>

\* Page numbers a caller may pass: 0 up to one past the largest page count.
PageInputs == 0..(MathCeilDiv(MaxItems, POSTS_PER_PAGE) + 1)

GoToPageCall == \E page \in PageInputs : GoToPage(page)

Next ==
    \/ RunEffects
    \/ FetchEventsFulfilled
    \/ FetchEventsTagsFulfilled
    \/ FetchTagsFulfilled
    \/ FetchRejected
    \/ FetchEndsUnread
    \/ ToggleTagClick
    \/ ClearTags
    \/ ToggleSortOrder
    \/ GoToPageCall

Spec == Init /\ [][Next]_vars

-----------------------------------------------------------------------------
(* The tag join on its own: fetchEventsWithTags after Promise.all has      *)
(* resolved, applied to arbitrary small collections, which stay in         *)
(* responses for comparison with the result.                               *)

JoinInputs ==
    [events : {MkEvents(n) : n \in 0..MaxJoinItems},
     eventsTags : SeqsUpTo([events_id : 1..MaxJoinItems, tags_id : TagIds], MaxJoinRows),
     tags : TagResponses]

JoinInit ==
    /\ responses \in JoinInputs
    /\ fetchState = [w \in Fetches |-> "ok"]
    /\ loadPc = "awaiting"
    /\ blogPosts = <<>>
    /\ selectedTags = <<>>
    /\ sortOrder = "newest"
    /\ filteredPosts = <<>>
    /\ currentPage = 1
    /\ totalPages = 1
    /\ displayedPosts = <<>>
    /\ filterDirty = FALSE
    /\ pageDirty = FALSE
    /\ scrollToTop = FALSE
    /\ lastOp = "none"
    /\ requests = {}
    /\ DetailUnmounted
    /\ CalendarIdle

JoinApply ==
    /\ loadPc = "awaiting"
    /\ blogPosts' = MapFields(EventsWithTags(responses.events, responses.eventsTags,
                                             responses.tags))
    /\ loadPc' = "done"
    /\ lastOp' = "load"
    /\ UNCHANGED <<requests, detailVars, calVars>>
    /\ UNCHANGED <<fetchState, responses, selectedTags, sortOrder, filteredPosts,
                   currentPage, totalPages, displayedPosts, filterDirty, pageDirty,
                   scrollToTop>>

JoinNext == JoinApply

JoinSpec == JoinInit /\ [][JoinNext]_vars

-----------------------------------------------------------------------------
(* The detail page (SinglePost): one mounted component whose route         *)
(* parameters may change.  Every run of the effect starts a fetchData()    *)
(* invocation; an invocation holds the three fetches of its Promise.all.   *)

\* The slug of each item the CMS holds: one item under "my-event", two items
\* under "dup" (a slug collision), none under "missing".
SlugOf == <<"my-event", "dup", "dup">>

Slugs == {"my-event", "dup", "missing"}

CmsEvents == MkEvents(Len(SlugOf))

\* readItems('events', { filter: { slug: { _eq: slug } } }) as the CMS answers it.
EventsBySlug(slug) == SelectSeq(CmsEvents, LAMBDA e : SlugOf[e.id] = slug)

DetailJoinResponses == {<<>>, BulkJoins(Len(SlugOf))}

DetailTagResponses == {<<>>, <<[id |-> 1, tag |-> "a"], [id |-> 2, tag |-> "b"]>>}

\* What the component renders.
DetailView ==
    IF slugValue = NoSlug THEN "suspended"
    ELSE IF loading THEN "loading"
    ELSE IF error # NoError THEN "error"
    ELSE IF postData = <<>> THEN "notFound"
    ELSE "post"

\* The effect (deps [slugValue]) calls fetchData(): fetchEventsWithTags(slug)
\* issues the three fetches together.
FetchData(slug) ==
    /\ inflight' = Append(inflight, [slug |-> slug,
                                     state |-> [w \in Fetches |-> "pending"],
                                     got |-> NoResponses])
    /\ requests' = requests \cup
          {DirectusRequest(ReadItems(Collection[w], IF w = "events" THEN slug ELSE NoSlug)) :
              w \in Fetches}

\* use(params) has resolved: first render with a slug, then the effect.
DetailMount ==
    \E slug \in Slugs :
        /\ slugValue = NoSlug
        /\ slugValue' = slug
        /\ FetchData(slug)
        /\ UNCHANGED <<postData, loading, error, slugChanges, finished>>
        /\ UNCHANGED <<listingVars, lastOp, calVars>>

\* The route parameters change on the mounted component: render with the new
\* slug, then the effect runs again.  The effect returns no cleanup function.
SlugChange ==
    \E slug \in Slugs \ {slugValue} :
        /\ slugValue # NoSlug
        /\ slugChanges < MaxSlugChanges
        /\ slugValue' = slug
        /\ slugChanges' = slugChanges + 1
        /\ FetchData(slug)
        /\ UNCHANGED <<postData, loading, error, finished>>
        /\ UNCHANGED <<listingVars, lastOp, calVars>>

RemoveAt(s, i) == [k \in 1..(Len(s) - 1) |-> IF k < i THEN s[k] ELSE s[k + 1]]

\* Variant of fetchData's continuation that drops the result of a request
\* whose slug is no longer the rendered one.
FetchDataContinueIfCurrent(req, outcome, events) ==
    /\ finished' = Append(finished, [slug |-> req.slug, outcome |-> outcome, events |-> events])
    /\ IF req.slug # slugValue
       THEN UNCHANGED <<postData, error, loading>>
       ELSE /\ IF Len(events) = 0
               THEN /\ error' = "Failed to load post data."
                    /\ UNCHANGED postData
               ELSE /\ postData' = <<events[1]>>
                    /\ UNCHANGED error
            /\ loading' = FALSE

\* Variant without the finally block: loading is cleared only where an item
\* was stored.
FetchDataContinueNoFinally(req, outcome, events) ==
    /\ finished' = Append(finished, [slug |-> req.slug, outcome |-> outcome, events |-> events])
    /\ IF Len(events) = 0
       THEN /\ error' = "Failed to load post data."
            /\ UNCHANGED <<postData, loading>>
       ELSE /\ postData' = <<events[1]>>
            /\ loading' = FALSE
            /\ UNCHANGED error

\* Variant that clears the error when an item is stored.
FetchDataContinueClearsError(req, outcome, events) ==
    /\ finished' = Append(finished, [slug |-> req.slug, outcome |-> outcome, events |-> events])
    /\ IF Len(events) = 0
       THEN /\ error' = "Failed to load post data."
            /\ UNCHANGED postData
       ELSE /\ postData' = <<events[1]>>
            /\ error' = NoError
    /\ loading' = FALSE

\* fetchData after the await.  notFound() throws inside the try block, so the
\* catch block of fetchData receives it and stores the error message; the
\* finally block clears loading on every path.
FetchDataContinue(req, outcome, events) ==
    /\ finished' = Append(finished, [slug |-> req.slug, outcome |-> outcome, events |-> events])
    /\ IF Len(events) = 0
       THEN /\ error' = "Failed to load post data."
            /\ UNCHANGED postData
       ELSE /\ postData' = <<events[1]>>
            /\ UNCHANGED error
    /\ loading' = FALSE

\* One fetch of invocation i is answered.  When it is the last of the three,
\* Promise.all resolves and the join and fetchData run on in the same task.
DetailFetchFulfilled(i, which, resp) ==
    /\ inflight[i].state[which] = "pending"
    /\ LET req == inflight[i]
           state == [req.state EXCEPT ![which] = "ok"]
           got == [req.got EXCEPT ![which] = resp]
       IN  IF PromiseAllFulfilled(state)
           THEN /\ inflight' = RemoveAt(inflight, i)
                /\ FetchDataContinue(req, "ok",
                        EventsWithTags(got.events, got.eventsTags, got.tags))
           ELSE /\ inflight' = [inflight EXCEPT ![i] = [req EXCEPT !.state = state, !.got = got]]
                /\ UNCHANGED <<postData, loading, error, finished>>
    /\ UNCHANGED <<slugValue, slugChanges, requests>>
    /\ UNCHANGED <<listingVars, lastOp, calVars>>

DetailEventsFulfilled ==
    \E i \in 1..Len(inflight) : DetailFetchFulfilled(i, "events", EventsBySlug(inflight[i].slug))

DetailEventsTagsFulfilled ==
    \E i \in 1..Len(inflight), resp \in DetailJoinResponses :
        DetailFetchFulfilled(i, "eventsTags", resp)

DetailTagsFulfilled ==
    \E i \in 1..Len(inflight), resp \in DetailTagResponses :
        DetailFetchFulfilled(i, "tags", resp)

\* One fetch of invocation i fails.  The try block of fetchEvents returns the
\* promise without awaiting it, so its catch never sees the rejection;
\* Promise.all rejects, the catch block of fetchEventsWithTags logs and
\* returns [], and fetchData runs on with it.  The fetches of the invocation
\* still in flight end unread.
DetailFetchRejected ==
    \E i \in 1..Len(inflight), which \in Fetches :
        /\ inflight[i].state[which] = "pending"
        /\ inflight' = RemoveAt(inflight, i)
        /\ FetchDataContinue(inflight[i], "failed", CatchResult(inflight[i].got))
        /\ UNCHANGED <<slugValue, slugChanges, requests>>
        /\ UNCHANGED <<listingVars, lastOp, calVars>>

DetailNext ==
    \/ DetailMount
    \/ SlugChange
    \/ DetailEventsFulfilled
    \/ DetailEventsTagsFulfilled
    \/ DetailTagsFulfilled
    \/ DetailFetchRejected

DetailSpec == Init /\ [][DetailNext]_vars

\* One of the fetches in flight is answered or fails.
DetailFetchSettles ==
    \/ DetailEventsFulfilled
    \/ DetailEventsTagsFulfilled
    \/ DetailTagsFulfilled
    \/ DetailFetchRejected

\* The detail page under the assumption that no request hangs: while a fetch
\* is in flight, one of them settles eventually.
DetailFairSpec == DetailSpec /\ WF_vars(DetailFetchSettles)

-----------------------------------------------------------------------------
(* The calendar link generator: generateGoogleCalendarUrl.  Strings are    *)
(* handled character by character.                                        *)

Char(s, i) == SubSeq(s, i, i)

Digits == <<"0", "1", "2", "3", "4", "5", "6", "7", "8", "9">>

IsDigit(c) == \E d \in 1..Len(Digits) : Digits[d] = c

DigitValue(c) == (CHOOSE d \in 1..Len(Digits) : Digits[d] = c) - 1

AllDigits(s) == \A i \in 1..Len(s) : IsDigit(Char(s, i))

\* The number a string of decimal digits denotes.
RECURSIVE ToNumber(_)
ToNumber(s) ==
    IF Len(s) = 0
    THEN 0
    ELSE ToNumber(SubSeq(s, 1, Len(s) - 1)) * 10 + DigitValue(Char(s, Len(s)))

\* String(n).padStart(width, '0') for n of at most width digits.
RECURSIVE PadStart(_, _)
PadStart(n, width) ==
    IF width = 0 THEN "" ELSE PadStart(n \div 10, width - 1) \o Digits[(n % 10) + 1]

MsPerDay == 86400000

\* A Date is <<day, ms>>: the day number since 1970-01-01 and the millisecond
\* within that day, both in UTC; the time value NaN is InvalidDate.
InvalidDate == <<>>

\* The civil date <<y, m, d>> of a day number (the inverse of DateGetTime).
CivilFromDays(day) ==
    LET z   == day + 719468
        era == z \div 146097
        doe == z - era * 146097
        yoe == (doe - doe \div 1460 + doe \div 36524 - doe \div 146096) \div 365
        doy == doe - (365 * yoe + yoe \div 4 - yoe \div 100)
        mp  == (5 * doy + 2) \div 153
        d   == doy - (153 * mp + 2) \div 5 + 1
        m   == IF mp < 10 THEN mp + 3 ELSE mp - 9
        y   == yoe + era * 400
    IN  <<IF m <= 2 THEN y + 1 ELSE y, m, d>>

\* The time value of the fields of a date-time string; offset is the UTC
\* offset of the fields in minutes.
MakeDate(y, m, d, h, mi, sec, ms, offset) ==
    LET total == ((h * 60 + mi) - offset) * 60000 + sec * 1000 + ms
    IN  <<DateGetTime(<<y, m, d>>) + total \div MsPerDay, total % MsPerDay>>

\* YYYY-MM-DD at the start of s.
HasDatePart(s) ==
    /\ Len(s) >= 10
    /\ AllDigits(SubSeq(s, 1, 4)) /\ Char(s, 5) = "-"
    /\ AllDigits(SubSeq(s, 6, 7)) /\ Char(s, 8) = "-"
    /\ AllDigits(SubSeq(s, 9, 10))
    /\ ToNumber(SubSeq(s, 6, 7)) \in 1..12
    /\ ToNumber(SubSeq(s, 9, 10)) \in 1..31

\* THH:mm:ss behind the date part.
HasTimePart(s) ==
    /\ Len(s) >= 19
    /\ Char(s, 11) = "T"
    /\ AllDigits(SubSeq(s, 12, 13)) /\ Char(s, 14) = ":"
    /\ AllDigits(SubSeq(s, 15, 16)) /\ Char(s, 17) = ":"
    /\ AllDigits(SubSeq(s, 18, 19))
    /\ ToNumber(SubSeq(s, 12, 13)) \in 0..23
    /\ ToNumber(SubSeq(s, 15, 16)) \in 0..59
    /\ ToNumber(SubSeq(s, 18, 19)) \in 0..59

\* .sss behind the seconds.
HasFraction(s) ==
    /\ Len(s) >= 23
    /\ Char(s, 20) = "."
    /\ AllDigits(SubSeq(s, 21, 23))

\* The UTC offset designator z: "Z", +HH:mm, -HH:mm, or none (local time,
\* whose offset localOffset the environment supplies).  <<>> when z is none
\* of these, else <<minutes>>.
ZoneOffset(z, localOffset) ==
    IF z = "" THEN <<localOffset>>
    ELSE IF z = "Z" THEN <<0>>
    ELSE IF /\ Len(z) = 6
            /\ Char(z, 1) \in {"+", "-"}
            /\ AllDigits(SubSeq(z, 2, 3)) /\ Char(z, 4) = ":"
            /\ AllDigits(SubSeq(z, 5, 6))
            /\ ToNumber(SubSeq(z, 2, 3)) \in 0..23
            /\ ToNumber(SubSeq(z, 5, 6)) \in 0..59
         THEN LET minutes == ToNumber(SubSeq(z, 2, 3)) * 60 + ToNumber(SubSeq(z, 5, 6))
              IN  <<IF Char(z, 1) = "-" THEN 0 - minutes ELSE minutes>>
         ELSE <<>>

\* new Date(s) for a string s: the date-time string format of the language
\* (a date alone is UTC midnight, a date-time without offset is local time);
\* any other string gives the time value NaN.
NewDate(s, localOffset) ==
    IF ~HasDatePart(s) THEN InvalidDate
    ELSE LET y == ToNumber(SubSeq(s, 1, 4))
             m == ToNumber(SubSeq(s, 6, 7))
             d == ToNumber(SubSeq(s, 9, 10))
         IN  IF Len(s) = 10 THEN MakeDate(y, m, d, 0, 0, 0, 0, 0)
             ELSE IF ~HasTimePart(s) THEN InvalidDate
             ELSE LET frac == HasFraction(s)
                      ms   == IF frac THEN ToNumber(SubSeq(s, 21, 23)) ELSE 0
                      z    == SubSeq(s, IF frac THEN 24 ELSE 20, Len(s))
                      off  == ZoneOffset(z, localOffset)
                  IN  IF off = <<>> THEN InvalidDate
                      ELSE MakeDate(y, m, d,
                                    ToNumber(SubSeq(s, 12, 13)),
                                    ToNumber(SubSeq(s, 15, 16)),
                                    ToNumber(SubSeq(s, 18, 19)),
                                    ms, off[1])

\* Date.prototype.toISOString of a valid date: YYYY-MM-DDTHH:mm:ss.sssZ.
ToISOString(date) ==
    LET civil == CivilFromDays(date[1])
        ms    == date[2]
    IN  PadStart(civil[1], 4) \o "-" \o PadStart(civil[2], 2) \o "-" \o PadStart(civil[3], 2)
        \o "T" \o PadStart(ms \div 3600000, 2)
        \o ":" \o PadStart((ms \div 60000) % 60, 2)
        \o ":" \o PadStart((ms \div 1000) % 60, 2)
        \o "." \o PadStart(ms % 1000, 3) \o "Z"

\* The length of the run of digits of s that starts at position i.
RECURSIVE DigitRun(_, _)
DigitRun(s, i) ==
    IF i <= Len(s) /\ IsDigit(Char(s, i)) THEN 1 + DigitRun(s, i + 1) ELSE 0

\* Variant of the replace whose pattern lacks the fraction: /-|:/g.
RECURSIVE ReplaceSeparatorsOnly(_, _)
ReplaceSeparatorsOnly(s, i) ==
    IF i > Len(s) THEN ""
    ELSE IF Char(s, i) \in {"-", ":"} THEN ReplaceSeparatorsOnly(s, i + 1)
    ELSE Char(s, i) \o ReplaceSeparatorsOnly(s, i + 1)

\* s.replace(/-|:|\.\d+/g, '') from position i on.
RECURSIVE ReplaceSeparators(_, _)
ReplaceSeparators(s, i) ==
    IF i > Len(s) THEN ""
    ELSE IF Char(s, i) \in {"-", ":"} THEN ReplaceSeparators(s, i + 1)
    ELSE IF Char(s, i) = "." /\ DigitRun(s, i + 1) > 0
         THEN ReplaceSeparators(s, i + 1 + DigitRun(s, i + 1))
    ELSE Char(s, i) \o ReplaceSeparators(s, i + 1)

\* formatDate of a valid date.
FormatDate(date) == ReplaceSeparators(ToISOString(date), 1)

\* The reserved characters that occur in titles, locations and dates, and
\* their character codes.
ReservedChars == " %&+,/:=?"

ReservedCodes == <<32, 37, 38, 43, 44, 47, 58, 61, 63>>

AsciiCode(c) == ReservedCodes[CHOOSE i \in 1..Len(ReservedChars) : Char(ReservedChars, i) = c]

HexDigits == "0123456789ABCDEF"

\* The characters the form-urlencoded serializer leaves as they are.
FormUnreserved ==
    "*-._0123456789ABCDEFGHIJKLMNOPQRSTUVWXYZabcdefghijklmnopqrstuvwxyz"

\* URLSearchParams serialization of one string of unreserved and reserved
\* characters: a space becomes "+", every other reserved character its
\* percent escape.
RECURSIVE FormEncode(_, _)
FormEncode(s, i) ==
    IF i > Len(s) THEN ""
    ELSE LET c == Char(s, i)
             out == IF \E k \in 1..Len(FormUnreserved) : Char(FormUnreserved, k) = c
                    THEN c
                    ELSE IF c = " " THEN "+"
                    ELSE "%" \o Char(HexDigits, (AsciiCode(c) \div 16) + 1)
                             \o Char(HexDigits, (AsciiCode(c) % 16) + 1)
         IN  out \o FormEncode(s, i + 1)

\* new URLSearchParams({...}).toString(): name=value pairs in insertion
\* order, joined by "&".
RECURSIVE ParamsToString(_, _)
ParamsToString(params, i) ==
    IF i > Len(params) THEN ""
    ELSE (IF i > 1 THEN "&" ELSE "")
         \o FormEncode(params[i][1], 1) \o "=" \o FormEncode(params[i][2], 1)
         \o ParamsToString(params, i + 1)

\* What a call of the generator gives: the string it returns, or the error
\* it throws.
Returns(value) == [kind |-> "returns", value |-> value]
Throws(value) == [kind |-> "throws", value |-> value]

\* generateGoogleCalendarUrl(post) of the listing page.  toISOString throws a
\* RangeError when the time value of the date is NaN.
GenerateGoogleCalendarUrl(post, localOffset) ==
    LET startDateTime == NewDate(post.time, localOffset)
        endDateTime == NewDate(post.end_time, localOffset)
    IN  IF startDateTime = InvalidDate \/ endDateTime = InvalidDate
        THEN Throws("RangeError: Invalid time value")
        ELSE LET params ==
                   << <<"action", "TEMPLATE">>,
                      <<"text", post.title>>,
                      <<"details", post.title \o " - Learn more at our website.">>,
                      <<"location", post.location>>,
                      <<"dates", FormatDate(startDateTime) \o "/" \o FormatDate(endDateTime)>> >>
             IN  Returns("https://calendar.google.com/calendar/render?"
                         \o ParamsToString(params, 1))

\* generateGoogleCalendarUrl() of the detail page: no details parameter.
DetailGenerateGoogleCalendarUrl(post, localOffset) ==
    LET startDate == NewDate(post.time, localOffset)
        endDate == NewDate(post.end_time, localOffset)
    IN  IF startDate = InvalidDate \/ endDate = InvalidDate
        THEN Throws("RangeError: Invalid time value")
        ELSE LET params ==
                   << <<"action", "TEMPLATE">>,
                      <<"text", post.title>>,
                      <<"location", post.location>>,
                      <<"dates", FormatDate(startDate) \o "/" \o FormatDate(endDate)>> >>
             IN  Returns("https://calendar.google.com/calendar/render?"
                         \o ParamsToString(params, 1))

\* The posts the generator is given: titles and locations with characters the
\* query string reserves; start and end as a UTC date-time, a local date-time,
\* a date-time with fraction and offset, a date alone, and two strings that
\* are no date.
Titles == {"Fair", "Open Day", "R&D: 50% off/2"}

Locations == {"Hall A", ""}

TimeStrings ==
    {"2024-07-01T10:00:00Z", "2024-07-01T12:00:00Z", "2024-12-31T23:30:00",
     "2024-03-01T00:30:00.250+02:00", "2024-02-29", "tbd", ""}

CalendarPosts == [title : Titles, location : Locations, time : TimeStrings, end_time : TimeStrings]

\* UTC offsets, in minutes, of the local time of the browser.
LocalOffsets == {0, 120, -300}

CalendarInit ==
    /\ ListingInit
    /\ requests = {}
    /\ DetailUnmounted
    /\ calPost \in {<<[post |-> post, localOffset |-> offset]>> :
                        post \in CalendarPosts, offset \in LocalOffsets}
    /\ calResult = <<>>

\* The "Add to Calendar" click of a listing card.
ListingCalendarClick ==
    /\ calResult = <<>>
    /\ calResult' = <<GenerateGoogleCalendarUrl(calPost[1].post, calPost[1].localOffset)>>
    /\ UNCHANGED <<listingVars, lastOp, requests, detailVars, calPost>>

\* The render of the detail page's calendar link.
DetailCalendarRender ==
    /\ calResult = <<>>
    /\ calResult' = <<DetailGenerateGoogleCalendarUrl(calPost[1].post, calPost[1].localOffset)>>
    /\ UNCHANGED <<listingVars, lastOp, requests, detailVars, calPost>>

CalendarNext ==
    \/ ListingCalendarClick
    \/ DetailCalendarRender

CalendarSpec == CalendarInit /\ [][CalendarNext]_vars

-----------------------------------------------------------------------------
(* Properties.                                                             *)

\* ceil(n / POSTS_PER_PAGE), stated without the division
LeastPageCount(n) ==
    CHOOSE k \in 0..n :
        /\ k * POSTS_PER_PAGE >= n
        /\ \A j \in 0..(k - 1) : j * POSTS_PER_PAGE < n

AtLeastOne(k) == IF k > 1 THEN k ELSE 1

ResetOps == {"toggleTag", "clearTags", "toggleSortOrder", "load"}

\* C1: once the filter/sort effect has run, totalPages equals
\* max(1, ceil(filteredCount / 12)), also when the filtered list is empty.
C1_TotalPagesFormula ==
    ~filterDirty => totalPages = AtLeastOne(LeastPageCount(Len(filteredPosts)))

\* C2: in every reachable state 1 <= currentPage <= totalPages.
C2_CurrentPageInRange == 1 <= currentPage /\ currentPage <= totalPages

\* C3: after toggleTag, clearTags, toggleSortOrder or the arrival of the base
\* collection, whatever the page was, currentPage is 1 once the effects have run.
C3_ResetToFirstPage == (Settled /\ lastOp \in ResetOps) => currentPage = 1

\* A resetting operation has acted on a listing that showed a later page.
C3_Witness == lastOp \in ResetOps /\ ~Settled /\ currentPage > 1

\* C4: goToPage(n) with n < 1 or n > totalPages changes nothing of currentPage,
\* selectedTags, sortOrder and the filtered list and requests no scroll; with
\* 1 <= n <= totalPages it sets currentPage to n, requests the scroll to top and
\* leaves selectedTags, sortOrder and the filtered list unchanged.
C4_GoToPageFrame ==
    [][\A page \in PageInputs :
          GoToPage(page) =>
              IF page < 1 \/ page > totalPages
              THEN /\ UNCHANGED <<currentPage, selectedTags, sortOrder, filteredPosts>>
                   /\ ~scrollToTop'
              ELSE /\ currentPage' = page
                   /\ scrollToTop'
                   /\ UNCHANGED <<selectedTags, sortOrder, filteredPosts>>]_vars

\* A rejected goToPage on a listing that an accepted goToPage had moved to a
\* later page.
C4_Witness == lastOp = "goToPage" /\ ~scrollToTop /\ currentPage > 1

C6_FilterSemantics ==
    ~filterDirty =>
        LET passing == {i \in 1..Len(blogPosts) :
                            \/ selectedTags = <<>>
                            \/ Range(blogPosts[i].tags) \cap Range(selectedTags) # {}}
        IN  /\ Len(filteredPosts) = Cardinality(passing)
            /\ Range(filteredPosts) = {blogPosts[i] : i \in passing}

\* Two tags are selected, the filter has run, it let through an item carrying
\* only one of them and held back an item carrying none.
C6_Witness ==
    /\ ~filterDirty
    /\ Cardinality(Range(selectedTags)) = 2
    /\ \E k \in 1..Len(filteredPosts) :
          Cardinality(Range(filteredPosts[k].tags) \cap Range(selectedTags)) = 1
    /\ Len(filteredPosts) < Len(blogPosts)
    /\ Len(filteredPosts) > POSTS_PER_PAGE

\* calendar order of two <<year, month, day>> dates
DateAtMost(d, e) ==
    \/ d[1] < e[1]
    \/ d[1] = e[1] /\ d[2] < e[2]
    \/ d[1] = e[1] /\ d[2] = e[2] /\ d[3] <= e[3]

DatesOf(posts) == [i \in 1..Len(posts) |-> posts[i].date_created]

Reverse(s) == [i \in 1..Len(s) |-> s[Len(s) + 1 - i]]

ExampleDates == << <<2024, 1, 1>>, <<2024, 6, 1>>, <<2023, 12, 31>> >>

ExampleNewest == << <<2024, 6, 1>>, <<2024, 1, 1>>, <<2023, 12, 31>> >>

\* C7: the filtered list is ordered by date_created, non-increasing for newest
\* and non-decreasing for oldest; with pairwise distinct dates the oldest order
\* is the reverse of the newest order; the dates 2024-01-01, 2024-06-01,
\* 2023-12-31 come out as 2024-06-01, 2024-01-01, 2023-12-31 for newest.
C7_SortedByDate ==
    ~filterDirty =>
        LET dates == DatesOf(filteredPosts)
            other == IF sortOrder = "newest" THEN "oldest" ELSE "newest"
        IN  /\ \A i \in 1..(Len(dates) - 1) :
                  IF sortOrder = "newest"
                  THEN DateAtMost(dates[i + 1], dates[i])
                  ELSE DateAtMost(dates[i], dates[i + 1])
            /\ Cardinality(Range(dates)) = Len(dates) =>
                  filteredPosts = Reverse(FilterAndSort(blogPosts, selectedTags, other))
            /\ (DatesOf(blogPosts) = ExampleDates /\ selectedTags = <<>>) =>
                  dates = IF sortOrder = "newest" THEN ExampleNewest
                          ELSE Reverse(ExampleNewest)

\* The three example dates have been sorted oldest first.
C7_Witness ==
    /\ ~filterDirty
    /\ DatesOf(blogPosts) = ExampleDates
    /\ sortOrder = "oldest"
    /\ DatesOf(filteredPosts) = Reverse(ExampleNewest)

\* the label the dictionary resolves a tag id to (its last entry), or none
Resolves(tags, tagsId) ==
    \E j \in 1..Len(tags) :
        /\ tags[j].id = tagsId
        /\ tags[j].tag # ""
        /\ \A k \in (j + 1)..Len(tags) : tags[k].id # tagsId

\* C8: every tag of every aggregated item is a label of the tag dictionary;
\* a join row whose tag id the dictionary lacks, or resolves to the empty
\* label, adds nothing to the item's tag list.
C8_TagsResolvable ==
    loadPc = "done" =>
        \A i \in 1..Len(blogPosts) :
            /\ \A tag \in Range(blogPosts[i].tags) :
                  \E k \in 1..Len(responses.tags) : responses.tags[k].tag = tag
            /\ Len(blogPosts[i].tags) =
                  Cardinality({k \in 1..Len(responses.eventsTags) :
                      /\ responses.eventsTags[k].events_id = blogPosts[i].id
                      /\ Resolves(responses.tags, responses.eventsTags[k].tags_id)})

\* An item has been joined that has one row the dictionary resolves and one
\* row whose tag id the dictionary lacks.
C8_Witness ==
    /\ loadPc = "done"
    /\ \E i \in 1..Len(blogPosts) :
          /\ Len(blogPosts[i].tags) = 1
          /\ \E k \in 1..Len(responses.eventsTags) :
                /\ responses.eventsTags[k].events_id = blogPosts[i].id
                /\ \A j \in 1..Len(responses.tags) :
                      responses.tags[j].id # responses.eventsTags[k].tags_id

\* C9: the aggregator returns as many items as the primary collection holds,
\* the same items in the same order, whatever the join rows and the dictionary.
C9_OutputCardinality ==
    loadPc = "done" =>
        /\ Len(blogPosts) = Len(responses.events)
        /\ \A i \in 1..Len(blogPosts) :
              /\ blogPosts[i].id = responses.events[i].id
              /\ blogPosts[i].date_created = responses.events[i].date_created

\* Two items have been joined with no join row and an empty dictionary.
C9_Witness ==
    /\ loadPc = "done"
    /\ Len(blogPosts) = 2
    /\ responses.eventsTags = <<>>
    /\ responses.tags = <<>>

\* C10: once a fetch has failed the base collection is empty, loadEvents has
\* finished, and the settled page shows no items.
C10_FailureGivesNoItems ==
    (\E w \in Fetches : fetchState[w] = "failed") =>
        /\ loadPc = "done"
        /\ blogPosts = <<>>
        /\ Settled => (filteredPosts = <<>> /\ displayedPosts = <<>>)

\* The tags fetch has failed, the two other fetches were answered, and the
\* effects have run.
C10_Witness ==
    /\ fetchState = [w \in Fetches |-> IF w = "tags" THEN "failed" ELSE "ok"]
    /\ Settled
    /\ blogPosts = <<>>

\* The fetchData() invocation that ended latest.
LastFinished == finished[Len(finished)]

\* C11: on the detail page, when the fetch for the slug succeeds with zero
\* items the page ends in the not-found view (not the loading view, not the
\* error-message view); when it returns at least one item the page shows the
\* first returned item with its joined tag labels.
C11_DetailOutcome ==
    Len(finished) > 0 =>
        /\ (LastFinished.outcome = "ok" /\ LastFinished.events = <<>>)
              => DetailView = "notFound"
        /\ LastFinished.events # <<>>
              => (DetailView = "post" /\ postData = <<LastFinished.events[1]>>)

\* C12: on the detail page a failure of any of the three fetches and a
\* successful fetch with zero matching items end in the same view, and that
\* view is the not-found view.
C12_FailureAndEmptyAreNotFound ==
    (/\ Len(finished) > 0
     /\ LastFinished.outcome = "failed" \/ LastFinished.events = <<>>)
        => DetailView = "notFound"

\* The part of C12 the code keeps: a failed fetch and an empty answer end in
\* one and the same view.
DetailFailureAndEmptyAlike ==
    (/\ Len(finished) > 0
     /\ LastFinished.outcome = "failed" \/ LastFinished.events = <<>>)
        => DetailView = "error"

\* The first position from i on where s has the character c; Len(s) + 1 if none.
RECURSIVE IndexOf(_, _, _)
IndexOf(s, c, i) ==
    IF i > Len(s) \/ Char(s, i) = c THEN i ELSE IndexOf(s, c, i + 1)

HexValue(c) == (CHOOSE k \in 1..Len(HexDigits) : Char(HexDigits, k) = c) - 1

CharOfCode(code) ==
    Char(ReservedChars, CHOOSE i \in 1..Len(ReservedCodes) : ReservedCodes[i] = code)

\* Reading a form-urlencoded string back: "+" is a space, %XY the character
\* of code XY.
RECURSIVE FormDecode(_, _)
FormDecode(s, i) ==
    IF i > Len(s) THEN ""
    ELSE IF Char(s, i) = "+" THEN " " \o FormDecode(s, i + 1)
    ELSE IF Char(s, i) = "%"
         THEN CharOfCode(HexValue(Char(s, i + 1)) * 16 + HexValue(Char(s, i + 2)))
              \o FormDecode(s, i + 3)
    ELSE Char(s, i) \o FormDecode(s, i + 1)

\* The value of the first name=value pair of the query called name, the
\* pairs starting at position i; "" if there is none.
RECURSIVE SearchParam(_, _, _)
SearchParam(query, name, i) ==
    IF i > Len(query) THEN ""
    ELSE LET amp == IndexOf(query, "&", i)
             eq  == IndexOf(query, "=", i)
         IN  IF eq < amp /\ FormDecode(SubSeq(query, i, eq - 1), 1) = name
             THEN FormDecode(SubSeq(query, eq + 1, amp - 1), 1)
             ELSE SearchParam(query, name, amp + 1)

\* The query parameter name of a URL, as its receiver reads it.
UrlParam(url, name) ==
    SearchParam(SubSeq(url, IndexOf(url, "?", 1) + 1, Len(url)), name, 1)

\* The instant each date-time string of TimeStrings denotes, written in the
\* UTC basic format YYYYMMDDTHHMMSSZ; worked out by hand.
ExpectedBasic(time, localOffset) ==
    CASE time = "2024-07-01T10:00:00Z" -> "20240701T100000Z"
      [] time = "2024-07-01T12:00:00Z" -> "20240701T120000Z"
      [] time = "2024-12-31T23:30:00" /\ localOffset = 0 -> "20241231T233000Z"
      [] time = "2024-12-31T23:30:00" /\ localOffset = 120 -> "20241231T213000Z"
      [] time = "2024-12-31T23:30:00" /\ localOffset = -300 -> "20250101T043000Z"
      [] time = "2024-03-01T00:30:00.250+02:00" -> "20240229T223000Z"
      [] time = "2024-02-29" -> "20240229T000000Z"
      [] OTHER -> "unparseable"

\* C13: the dates parameter of the generated calendar URL is "<start>/<end>"
\* with each instant in the UTC basic format YYYYMMDDTHHMMSSZ, and the text
\* parameter is the title; time 2024-07-01T10:00:00Z, end_time
\* 2024-07-01T12:00:00Z and title Fair give
\* dates = 20240701T100000Z/20240701T120000Z and text = Fair.
C13_CalendarDates ==
    (calResult # <<>> /\ calResult[1].kind = "returns") =>
        LET post == calPost[1].post
            offset == calPost[1].localOffset
            url == calResult[1].value
        IN  /\ UrlParam(url, "dates") =
                   ExpectedBasic(post.time, offset) \o "/" \o ExpectedBasic(post.end_time, offset)
            /\ UrlParam(url, "text") = post.title
            /\ (/\ post.time = "2024-07-01T10:00:00Z"
                /\ post.end_time = "2024-07-01T12:00:00Z"
                /\ post.title = "Fair")
                  => /\ UrlParam(url, "dates") = "20240701T100000Z/20240701T120000Z"
                     /\ UrlParam(url, "text") = "Fair"

\* The generator has returned a URL for the post of the example.
C13_Witness ==
    /\ calResult # <<>>
    /\ calResult[1].kind = "returns"
    /\ calPost[1].post.time = "2024-07-01T10:00:00Z"
    /\ calPost[1].post.end_time = "2024-07-01T12:00:00Z"
    /\ calPost[1].post.title = "Fair"

Contains(s, sub) ==
    \E i \in 1..(Len(s) - Len(sub) + 1) : SubSeq(s, i, i + Len(sub) - 1) = sub

\* C14: when time or end_time is not parseable as a date-time, the generator
\* does not fail: it returns a URL whose dates parameter embeds the literal
\* "Invalid Date".
C14_InvalidDateLiteral ==
    (/\ calResult # <<>>
     /\ \/ NewDate(calPost[1].post.time, calPost[1].localOffset) = InvalidDate
        \/ NewDate(calPost[1].post.end_time, calPost[1].localOffset) = InvalidDate)
        => /\ calResult[1].kind = "returns"
           /\ Contains(UrlParam(calResult[1].value, "dates"), "Invalid Date")

\* C15: in every state the list of distinct tags is the union of the tag lists
\* of all items of the base collection, without duplicates, in ascending
\* lexicographic order; it is empty before the base collection has loaded.
C15_AllTagsSortedUnion ==
    LET allTags == AllTags(blogPosts)
    IN  /\ Range(allTags) = UNION {Range(blogPosts[i].tags) : i \in 1..Len(blogPosts)}
        /\ \A i, j \in 1..Len(allTags) : i < j => CodeUnit(allTags[i]) < CodeUnit(allTags[j])
        /\ loadPc # "done" => allTags = <<>>

\* The base collection has loaded and its first tag in item order is not the
\* least one.
C15_Witness ==
    /\ loadPc = "done"
    /\ Len(blogPosts) >= 2
    /\ blogPosts[1].tags = <<"b">>
    /\ blogPosts[2].tags = <<"a", "b">>

\* C16: every request issued through the CMS client carries the cache mode
\* no-store.
C16_NoStoreOnEveryRequest == \A r \in requests : r.cache = "no-store"

\* The client has issued a filtered request and unfiltered ones.
C16_Witness ==
    \E r1, r2 \in requests :
        /\ r1.path = "events" /\ r1.slug = "my-event"
        /\ r2.path = "tags" /\ r2.slug = NoSlug

\* The label of the dictionary's last entry for a tag id.
ResolvedLabel(tags, tagsId) ==
    tags[CHOOSE j \in 1..Len(tags) :
            /\ tags[j].id = tagsId
            /\ \A k \in (j + 1)..Len(tags) : tags[k].id # tagsId].tag

\* The join rows of the item with the given id that resolve to a non-empty label.
ContributingRows(id) ==
    {k \in 1..Len(responses.eventsTags) :
        /\ responses.eventsTags[k].events_id = id
        /\ Resolves(responses.tags, responses.eventsTags[k].tags_id)}

\* C17: the tag list of each item is exactly the sequence of the non-empty
\* resolved labels of the join rows whose foreign key equals the item's id, in
\* join-row order; rows of other items never contribute.
C17_TagsInJoinRowOrder ==
    loadPc = "done" =>
        \A i \in 1..Len(blogPosts) :
            LET rows == ContributingRows(blogPosts[i].id)
            IN  /\ Len(blogPosts[i].tags) = Cardinality(rows)
                /\ \A k \in rows :
                      blogPosts[i].tags[Cardinality({j \in rows : j <= k})] =
                          ResolvedLabel(responses.tags, responses.eventsTags[k].tags_id)

\* Two items have been joined; both join rows belong to the first, the label
\* of the first row being the greater one.
C17_Witness ==
    /\ loadPc = "done"
    /\ Len(blogPosts) = 2
    /\ blogPosts[1].tags = <<"b", "a">>
    /\ blogPosts[2].tags = <<>>
    /\ \A k \in 1..Len(responses.eventsTags) : responses.eventsTags[k].events_id = 1

\* The join of a primary collection and a join table under a map from tag
\* ids to labels; the empty label stands for an id the dictionary lacks.
JoinUnderMap(events, eventsTags, tagMap) ==
    [i \in 1..Len(events) |->
        [id |-> events[i].id,
         date_created |-> events[i].date_created,
         tags |-> FilterBoolean(RelatedTags(events[i], eventsTags, tagMap))]]

\* What the fetch which may have contributed to a join giving the collection
\* posts: its answer already held by Promise.all, or, for the fetch answered
\* in the step, any answer (for the dictionary: any map it may amount to).
EventsHeldOrAnswered(which, posts) ==
    IF which = "events"
    THEN {r \in EventsResponses : Len(r) = Len(posts)}
    ELSE {responses.events}

EventsTagsHeldOrAnswered(which) ==
    IF which = "eventsTags" THEN JoinResponses ELSE {responses.eventsTags}

TagMapHeldOrAnswered(which) ==
    IF which = "tags" THEN [TagIds -> Labels] ELSE {TagMap(responses.tags)}

\* C18: the three fetches are issued together and the join goes on only after
\* all three have completed: whatever the order of their completions and
\* failures, the base collection is either still empty or was built from all
\* three successful responses, never from a part of them.
C18_JoinAfterAllThree ==
    [][/\ blogPosts' # <<>> => \A w \in Fetches : fetchState'[w] = "ok"
       /\ blogPosts' # blogPosts =>
             \E which \in Fetches :
                 /\ fetchState[which] = "pending"
                 /\ \A w \in Fetches \ {which} : fetchState[w] = "ok"
                 /\ \E events \in EventsHeldOrAnswered(which, blogPosts'),
                       eventsTags \in EventsTagsHeldOrAnswered(which),
                       tagMap \in TagMapHeldOrAnswered(which) :
                       blogPosts' = JoinUnderMap(events, eventsTags, tagMap)]_vars

\* The base collection has been built, with tags joined from the join table
\* and the dictionary.
C18_Witness ==
    /\ loadPc = "done"
    /\ blogPosts # <<>>
    /\ Len(blogPosts[1].tags) > 0
    /\ \A w \in Fetches : fetchState[w] = "ok"

\* C19: on the detail page a fetch in flight is never cancelled: an invocation
\* leaves only by running to its end, and the item it found is stored then,
\* also when the slug has changed since it started; so a response for a
\* superseded slug that arrives last determines the displayed item.
C19_SupersededResultApplied ==
    [][/\ Len(inflight') < Len(inflight) => Len(finished') = Len(finished) + 1
       /\ (finished' # finished /\ finished'[Len(finished')].events # <<>>)
             => postData' = <<finished'[Len(finished')].events[1]>>]_vars

\* The slug changed while a fetch was pending, the answer for the new slug
\* came first and the answer for the old slug last: the page holds the item of
\* the old slug.
C19_Witness ==
    /\ Len(finished) >= 2
    /\ inflight = <<>>
    /\ finished[Len(finished) - 1].slug = slugValue
    /\ finished[Len(finished) - 1].events # <<>>
    /\ LastFinished.slug # slugValue
    /\ LastFinished.events # <<>>
    /\ postData = <<LastFinished.events[1]>>
    /\ SlugOf[postData[1].id] # slugValue

\* The windows of pages p, ..., last of a list, one behind the other.
RECURSIVE WindowsFrom(_, _, _)
WindowsFrom(filtered, p, last) ==
    IF p > last THEN <<>> ELSE PageWindow(filtered, p) \o WindowsFrom(filtered, p + 1, last)

\* C20: once the effects have settled, the displayed items are exactly the
\* items of the filtered list at the 0-based positions (currentPage - 1) * 12
\* to currentPage * 12 - 1 (fewer on the last page); at most 12 items are
\* displayed; the windows of pages 1..totalPages cover the filtered list
\* without skipping or repeating an item.
C20_DisplayedWindow ==
    Settled =>
        LET first == (currentPage - 1) * 12
            rest  == Len(filteredPosts) - first
            count == IF rest < 0 THEN 0 ELSE IF rest > 12 THEN 12 ELSE rest
        IN  /\ Len(displayedPosts) = count
            /\ \A k \in 1..count : displayedPosts[k] = filteredPosts[first + k]
            /\ Len(displayedPosts) <= 12
            /\ WindowsFrom(filteredPosts, 1, totalPages) = filteredPosts

\* The listing shows a last page that is not full, reached by goToPage.
C20_Witness ==
    /\ Settled
    /\ lastOp = "goToPage"
    /\ currentPage > 1
    /\ currentPage = totalPages
    /\ Len(displayedPosts) > 0
    /\ Len(displayedPosts) < 12

\* selectedTags holds only tags of the base collection, and a selection
\* leaves at least one item in the filtered list.
SelectionWithinAllTags ==
    /\ Range(selectedTags) \subseteq Range(AllTags(blogPosts))
    /\ selectedTags # <<>> => filteredPosts # <<>>

\* C21 as stated: in every reachable listing state selectedTags is a subset
\* of the distinct tags of the base collection, a non-empty selection comes
\* with a non-empty filtered list, and the filtered list is empty only when
\* the base collection is empty.
C21_EmptyResultOnlyWhenBaseEmpty ==
    /\ SelectionWithinAllTags
    /\ filteredPosts = <<>> => blogPosts = <<>>

\* C21, amended: the subset and the non-empty filtered list hold in every
\* reachable state; the filtered list is empty only when the base collection
\* is empty once the filter/sort effect has run on the current base
\* collection (the render between the arrival of the collection and that
\* effect still has the initial empty filtered list).
C21_EmptyResultOnlyWhenBaseEmptyAfterEffect ==
    /\ SelectionWithinAllTags
    /\ (~filterDirty /\ filteredPosts = <<>>) => blogPosts = <<>>

\* A selection narrows a loaded collection: some items pass, others do not.
C21_Witness ==
    /\ Settled
    /\ lastOp = "toggleTag"
    /\ selectedTags # <<>>
    /\ Len(filteredPosts) > 0
    /\ Len(filteredPosts) < Len(blogPosts)

\* C22: on the detail page, if the fetches of the join settle, loading
\* becomes false eventually, whatever the outcome (item found, zero items,
\* fetch failure); once false it never becomes true again, also on a later
\* slug change.
C22_LoadingEnds ==
    /\ (slugValue # NoSlug) ~> (loading = FALSE)
    /\ [][loading = FALSE => loading' = FALSE]_vars

\* The slug has changed after loading was cleared; the new fetch is in flight
\* and loading is still false.
C22_Witness ==
    /\ loading = FALSE
    /\ slugChanges > 0
    /\ Len(finished) > 0
    /\ inflight # <<>>
    /\ \A i \in 1..Len(inflight) : inflight[i].slug = slugValue

\* C23: on the detail page the error is never cleared once set: after a
\* resolution that set the error, a fetch that returns an item stores the
\* item in postData, and the page still renders the error message.
C23_ErrorNeverCleared ==
    [][/\ error # NoError => error' = error
       /\ (/\ error # NoError
           /\ finished' # finished
           /\ finished'[Len(finished')].events # <<>>)
             => /\ postData' = <<finished'[Len(finished')].events[1]>>
                /\ DetailView' = "error"]_vars

\* The first resolution found no item and set the error; the slug changed and
\* the fetch for the rendered slug returned an item, which postData holds
\* while the error message is rendered.
C23_Witness ==
    /\ Len(finished) >= 2
    /\ inflight = <<>>
    /\ finished[1].events = <<>>
    /\ finished[1].slug # slugValue
    /\ LastFinished.slug = slugValue
    /\ LastFinished.events # <<>>
    /\ postData = <<LastFinished.events[1]>>
    /\ DetailView = "error"


====
